---- MODULE Spec2Model ----
(***************************************************************************)
(* Model of the V2 pedal firmware (pedal.ino): an expression pedal that    *)
(* is sampled every 5 ms, mapped into a configured value range and sent    *)
(* as a MIDI Control Change every 20 ms when the value changed.            *)
(*                                                                         *)
(* The microsecond clock and the two timestamps are 32-bit unsigned        *)
(* values.  They are kept as two 16-bit halves, [hi, lo], so that the      *)
(* unsigned subtraction of V2Base::getUsecSince() wraps exactly like the   *)
(* firmware's.  A handler runs at one instant of the clock; time passes    *)
(* between handlers (action Advance).                                      *)
(*                                                                         *)
(* The smoother (V2Potentiometer) is an external capability: measure()     *)
(* may leave any quantized fraction, reset() returns it to 0.  Fractions   *)
(* are numerators over FracDen; FracDen is a power of two, so the float    *)
(* arithmetic of the mapper is exact and is computed here with integers.   *)
(***************************************************************************)
EXTENDS Integers, Sequences, FiniteSets, TLC

VARIABLES
  config,        \* Device::config, the persisted configuration
  _pedal,        \* Device::_pedal, the smoother: [fraction, measured]
  _step,         \* Device::_step, the last emitted value
  _measureUsec,  \* Device::_measureUsec, time of the last sample
  _eventsUsec,   \* Device::_eventsUsec, time of the last event-gate tick
  now,           \* the microsecond clock, V2Base::getUsec()
  pc,            \* position in the sketch: "setup", "midi", "device"
  tx,            \* packets handed to the transport by the last handler
  gate,          \* the last thing that touched the event gate (observation)
  fresh,         \* TRUE from a reset until the next handleLoop (observation)
  last,          \* what the last step did (observation)
  advances,      \* number of clock advances taken so far
  sendOk,        \* result of the last handleSend(); TRUE when none was made
  stamp          \* clock at the last reset or non-forced emission
                 \* (observation)

vars == <<config, _pedal, _step, _measureUsec, _eventsUsec, now, pc, tx,
          gate, fresh, last, advances, sendOk, stamp>>

runtime == <<_pedal, _step, _measureUsec, _eventsUsec>>

----------------------------------------------------------------------------
(* Bounds of the model *)

\* Denominator of the quantized fractions the smoother may report.
FracDen == 2

\* Number of clock advances in one behaviour.
MaxAdvance == 4

\* Denominator of the fractions the mapper is evaluated at.
MapperDen == 16

----------------------------------------------------------------------------
(* 32-bit unsigned clock arithmetic *)

Half == 65536

U32(h, l) == [hi |-> h, lo |-> l]

Zero32 == U32(0, 0)

\* a + d modulo 2^32, for 0 <= d < 2^16
Add32(a, d) ==
  LET s == a.lo + d
  IN  U32((a.hi + (s \div Half)) % Half, s % Half)

\* a - b modulo 2^32
Sub32(a, b) ==
  LET borrow == IF a.lo < b.lo THEN 1 ELSE 0
  IN  U32((a.hi - b.hi - borrow + 2 * Half) % Half,
          (a.lo - b.lo + Half) % Half)

\* a > n, for 0 <= n < 2^16
Greater32(a, n) == a.hi > 0 \/ a.lo > n

getUsec == now

getUsecSince(since) == Sub32(getUsec, since)

MeasureUsec == 5 * 1000

EventsUsec == 20 * 1000

\* Clock values at power-on: the counter start, and shortly before it wraps.
BootTimes == {Zero32, U32(Half - 1, Half - 20000)}

\* Time that may pass between two handlers, in microseconds.
Deltas == {2500, 20000}

----------------------------------------------------------------------------
(* MIDI packets *)

AllSoundOff == 120

AllNotesOff == 123

SustainPedal == 64

Packet(port, type, channel, controller, value) ==
  [port |-> port, type |-> type, channel |-> channel,
   controller |-> controller, value |-> value]

NoPacket == Packet(0, "None", 0, 0, 0)

\* The packets the transport may deliver.
Packets ==
  { Packet(0, "ControlChange", 0, AllSoundOff, 0),
    Packet(0, "ControlChange", 9, AllNotesOff, 0),
    Packet(1, "ControlChange", 0, AllNotesOff, 0),
    Packet(0, "ControlChange", 0, 7, 100),
    Packet(0, "SystemReset", 0, 0, 0),
    Packet(1, "SystemReset", 0, 0, 0),
    Packet(0, "NoteOn", 0, 60, 100) }

\* V2MIDI::Packet::setControlChange
setControlChange(channel, controller, value) ==
  Packet(0, "ControlChange", channel, controller, value)

----------------------------------------------------------------------------
(* Configuration *)

Config(channel, controller, from, to) ==
  [channel |-> channel,
   pedal |-> [controller |-> controller, from |-> from, to |-> to]]

DefaultConfig == Config(0, SustainPedal, 0, 127)

ValidConfig(c) ==
  /\ c.channel \in 0..15
  /\ c.pedal.controller \in 0..127
  /\ c.pedal.from \in 0..127
  /\ c.pedal.to \in 0..127

\* Stored configurations the pipeline is run with.
StoredConfigs ==
  { DefaultConfig, Config(15, 11, 127, 0), Config(3, 4, 10, 101) }

----------------------------------------------------------------------------
(* Smoother, V2Potentiometer *)

Fractions == 0..FracDen

PedalReset == [fraction |-> 0, measured |-> FALSE]

\* _pedal.measure(ADC.read()): the smoother settles on some fraction.
measure(f) == _pedal' = [fraction |-> f, measured |-> TRUE]

----------------------------------------------------------------------------
(* Mapper *)

\* (int8_t)x for a uint8_t x
ToInt8(x) == IF x > 127 THEN x - 256 ELSE x

\* float to integer conversion truncates toward zero
Trunc(n, d) == IF n >= 0 THEN n \div d ELSE -((-n) \div d)

\* The mapper with range kept in a uint8_t.
MappedUnsigned(cfg, num, den) ==
  LET range == (cfg.pedal.to - cfg.pedal.from + 256) % 256
  IN  Trunc(cfg.pedal.from * den + range * num, den) % 256

\* The mapper with the range taken as to - from + 1.
MappedInclusive(cfg, num, den) ==
  LET range == ToInt8(cfg.pedal.to) - ToInt8(cfg.pedal.from) + 1
  IN  Trunc(cfg.pedal.from * den + range * num, den) % 256

\* value = config.pedal.from + (range * fraction), for the fraction num/den
Mapped(cfg, num, den) ==
  LET range == ToInt8(cfg.pedal.to) - ToInt8(cfg.pedal.from)
  IN  Trunc(cfg.pedal.from * den + range * num, den) % 256

\* The value sendEvents() computes for a fraction of the smoother.
MappedValue(cfg, fraction) == Mapped(cfg, fraction, FracDen)

----------------------------------------------------------------------------
(* Configuration documents (JSON) *)

\* An optional member is a set: empty when the key is absent or null,
\* otherwise holding the one value.
Doc(midi, pedal) == [midi |-> midi, pedal |-> pedal]

MidiObject(channel) == [channel |-> channel]

PedalObject(controller, from, to) ==
  [controller |-> controller, from |-> from, to |-> to]

NoDoc == Doc({}, {})

\* Integers a document may carry for "channel".
ChannelValues == {-1, 0, 1, 8, 16, 17, 256}

\* Integers a document may carry for "controller", "from" and "to".
ByteValues == {-1, 0, 64, 127, 128, 200, 256}

\* Configurations whose exported document is imported again.
ExportedConfigs ==
  { [channel |-> ch, pedal |-> [controller |-> p[1], from |-> p[2],
                                to |-> p[3]]] :
      ch \in {0, 7, 15}, p \in {<<0, 127, 0>>, <<127, 0, 64>>} }

\* The member key of an optional object, absent when the object is.
Member(object, key) ==
  IF object = {} THEN {} ELSE (CHOOSE o \in object : TRUE)[key]

\* if (object) if (!object[key].isNull())
Present(object, key) == Member(object, key) # {}

ValueOf(object, key) == CHOOSE v \in Member(object, key) : TRUE

\* uint8_t x = json[...]: the document's integer converted to uint8_t.
\* ArduinoJson yields 0 for an integer that does not fit the target type.
AsUint8(v) == IF v \in 0..255 THEN v ELSE 0

\* The value stored for a present "channel" member.
importChannel(v) ==
  LET channel == AsUint8(v)
  IN  IF channel < 1 THEN 0
      ELSE IF channel > 16 THEN 15
      ELSE channel - 1

\* importValue() without the comparison against 127.
importValueUnclamped(v) == AsUint8(v)

\* The value stored for a present "controller", "from" or "to" member.
importValue(v) ==
  LET value == AsUint8(v)
  IN  IF value > 127 THEN 127 ELSE value

\* importConfiguration() without the isNull() check of "from".
importConfigurationFromUnchecked(cfg, json) ==
  LET jsonMidi == json.midi
      jsonPedal == json.pedal
  IN  [channel |->
         IF Present(jsonMidi, "channel")
         THEN importChannel(ValueOf(jsonMidi, "channel"))
         ELSE cfg.channel,
       pedal |->
         [controller |->
            IF Present(jsonPedal, "controller")
            THEN importValue(ValueOf(jsonPedal, "controller"))
            ELSE cfg.pedal.controller,
          from |->
            IF Present(jsonPedal, "from")
            THEN importValue(ValueOf(jsonPedal, "from"))
            ELSE IF jsonPedal # {} THEN importValue(0)
            ELSE cfg.pedal.from,
          to |->
            IF Present(jsonPedal, "to")
            THEN importValue(ValueOf(jsonPedal, "to"))
            ELSE cfg.pedal.to]]

importConfiguration(cfg, json) ==
  LET jsonMidi == json.midi
      jsonPedal == json.pedal
  IN  [channel |->
         IF Present(jsonMidi, "channel")
         THEN importChannel(ValueOf(jsonMidi, "channel"))
         ELSE cfg.channel,
       pedal |->
         [controller |->
            IF Present(jsonPedal, "controller")
            THEN importValue(ValueOf(jsonPedal, "controller"))
            ELSE cfg.pedal.controller,
          from |->
            IF Present(jsonPedal, "from")
            THEN importValue(ValueOf(jsonPedal, "from"))
            ELSE cfg.pedal.from,
          to |->
            IF Present(jsonPedal, "to")
            THEN importValue(ValueOf(jsonPedal, "to"))
            ELSE cfg.pedal.to]]

\* exportConfiguration() writing the stored, zero-based channel.
exportConfigurationZeroBased(cfg) ==
  Doc({MidiObject({cfg.channel})},
      {PedalObject({cfg.pedal.controller}, {cfg.pedal.from},
                   {cfg.pedal.to})})

exportConfiguration(cfg) ==
  Doc({MidiObject({cfg.channel + 1})},
      {PedalObject({cfg.pedal.controller}, {cfg.pedal.from},
                   {cfg.pedal.to})})

----------------------------------------------------------------------------
(* Handlers of Device *)

Step(op, pkt, doc, sampled, gated) ==
  [op |-> op, pkt |-> pkt, doc |-> doc, sampled |-> sampled,
   gated |-> gated]

\* An event at the gate: its kind ("setup", "SystemReset", "tick",
\* "forced"), the mapped value (0 for a reset), whether a packet was sent,
\* whether _step already had that value, and the kind of the event before.
Gate(kind, value, sent, was, after) ==
  [kind |-> kind, value |-> value, sent |-> sent, same |-> (was = value),
   after |-> after]

\* send(): handleSend() hands the packet to usb.midi.send() and returns
\* its result, success or failure.
send(midi) ==
  /\ tx' = <<midi>>
  /\ sendOk' \in BOOLEAN

\* A handler, or a branch of one, that sends nothing.
NoSend ==
  /\ tx' = <<>>
  /\ sendOk' = TRUE

\* sendEvents() with the force parameter ignored.
sendEventsUnforced(force) ==
  LET value == MappedValue(config, _pedal'.fraction)
  IN  IF _step = value
      THEN /\ _step' = _step
           /\ NoSend
           /\ gate' = Gate(IF force THEN "forced" ELSE "tick", value, FALSE,
                           _step, gate.kind)
      ELSE /\ _step' = value
           /\ send(setControlChange(config.channel,
                                    config.pedal.controller, value))
           /\ gate' = Gate(IF force THEN "forced" ELSE "tick", value, TRUE,
                           _step, gate.kind)

\* sendEvents() that sends without remembering the value in _step.
sendEventsForgetful(force) ==
  LET value == MappedValue(config, _pedal'.fraction)
  IN  IF ~force /\ _step = value
      THEN /\ _step' = _step
           /\ NoSend
           /\ gate' = Gate(IF force THEN "forced" ELSE "tick", value, FALSE,
                           _step, gate.kind)
      ELSE /\ _step' = _step
           /\ send(setControlChange(config.channel,
                                    config.pedal.controller, value))
           /\ gate' = Gate(IF force THEN "forced" ELSE "tick", value, TRUE,
                           _step, gate.kind)

\* sendEvents() that remembers the value only when the send succeeded.
sendEventsRetry(force) ==
  LET value == MappedValue(config, _pedal'.fraction)
  IN  IF ~force /\ _step = value
      THEN /\ _step' = _step
           /\ NoSend
           /\ gate' = Gate(IF force THEN "forced" ELSE "tick", value, FALSE,
                           _step, gate.kind)
      ELSE /\ send(setControlChange(config.channel,
                                    config.pedal.controller, value))
           /\ _step' = IF sendOk' THEN value ELSE _step
           /\ gate' = Gate(IF force THEN "forced" ELSE "tick", value, TRUE,
                           _step, gate.kind)

\* sendEvents() that builds the packet from _step before updating it.
sendEventsStale(force) ==
  LET value == MappedValue(config, _pedal'.fraction)
  IN  IF ~force /\ _step = value
      THEN /\ _step' = _step
           /\ NoSend
           /\ gate' = Gate(IF force THEN "forced" ELSE "tick", value, FALSE,
                           _step, gate.kind)
      ELSE /\ _step' = value
           /\ send(setControlChange(config.channel,
                                    config.pedal.controller, _step))
           /\ gate' = Gate(IF force THEN "forced" ELSE "tick", value, TRUE,
                           _step, gate.kind)

\* sendEvents() reads the smoother as the calling handler left it.
sendEvents(force) ==
  LET value == MappedValue(config, _pedal'.fraction)
  IN  IF ~force /\ _step = value
      THEN /\ _step' = _step
           /\ NoSend
           /\ gate' = Gate(IF force THEN "forced" ELSE "tick", value, FALSE,
                           _step, gate.kind)
      ELSE /\ _step' = value
           /\ send(setControlChange(config.channel,
                                    config.pedal.controller, value))
           /\ gate' = Gate(IF force THEN "forced" ELSE "tick", value, TRUE,
                           _step, gate.kind)

\* handleReset() that leaves _step as it is.
handleResetKeepStep ==
  /\ _pedal' = PedalReset
  /\ _step' = _step
  /\ _measureUsec' = Zero32
  /\ _eventsUsec' = getUsec

\* handleReset() that sets both timestamps to the current time.
handleResetBothNow ==
  /\ _pedal' = PedalReset
  /\ _step' = 0
  /\ _measureUsec' = getUsec
  /\ _eventsUsec' = getUsec

\* handleReset() that zeroes the emit timestamp like the sample timestamp.
handleResetEventsZero ==
  /\ _pedal' = PedalReset
  /\ _step' = 0
  /\ _measureUsec' = Zero32
  /\ _eventsUsec' = Zero32

handleReset ==
  /\ _pedal' = PedalReset
  /\ _step' = 0
  /\ _measureUsec' = Zero32
  /\ _eventsUsec' = getUsec

\* V2Device::reset() runs handleReset(); nothing is sent by it.
reset ==
  /\ handleReset
  /\ NoSend
  /\ fresh' = TRUE

allNotesOff == sendEvents(TRUE)

SampleDue == Greater32(getUsecSince(_measureUsec), MeasureUsec)

EventsDue == Greater32(getUsecSince(_eventsUsec), EventsUsec)

\* handleLoop() that restarts the emit cadence only when a packet was sent.
handleLoopStampOnSend ==
  /\ IF SampleDue
     THEN /\ \E f \in Fractions : measure(f)
          /\ _measureUsec' = getUsec
     ELSE UNCHANGED <<_pedal, _measureUsec>>
  /\ IF EventsDue
     THEN /\ sendEvents(FALSE)
          /\ _eventsUsec' = IF tx' # <<>> THEN getUsec ELSE _eventsUsec
     ELSE /\ UNCHANGED <<_step, _eventsUsec, gate>>
          /\ NoSend
  /\ fresh' = FALSE

handleLoop ==
  /\ IF SampleDue
     THEN /\ \E f \in Fractions : measure(f)
          /\ _measureUsec' = getUsec
     ELSE UNCHANGED <<_pedal, _measureUsec>>
  /\ IF EventsDue
     THEN /\ sendEvents(FALSE)
          /\ _eventsUsec' = getUsec
     ELSE /\ UNCHANGED <<_step, _eventsUsec, gate>>
          /\ NoSend
  /\ fresh' = FALSE

\* A handler that does nothing.
Ignore ==
  /\ UNCHANGED <<_pedal, _step, _measureUsec, _eventsUsec, gate, fresh>>
  /\ NoSend

\* handleControlChange() without the AllSoundOff case.
handleControlChangeNotesOnly(channel, controller, value) ==
  IF controller \in {AllNotesOff}
  THEN /\ UNCHANGED <<_pedal, _measureUsec, _eventsUsec, fresh>>
       /\ allNotesOff
  ELSE Ignore

\* handleControlChange() whose forced resend restarts the emit cadence.
handleControlChangeRestart(channel, controller, value) ==
  IF controller \in {AllSoundOff, AllNotesOff}
  THEN /\ UNCHANGED <<_pedal, _measureUsec, fresh>>
       /\ _eventsUsec' = getUsec
       /\ allNotesOff
  ELSE Ignore

handleControlChange(channel, controller, value) ==
  IF controller \in {AllSoundOff, AllNotesOff}
  THEN /\ UNCHANGED <<_pedal, _measureUsec, _eventsUsec, fresh>>
       /\ allNotesOff
  ELSE Ignore

handleSystemReset ==
  /\ reset
  /\ gate' = Gate("SystemReset", 0, FALSE, _step, gate.kind)

\* V2Device::dispatch() calls the handler of the packet's message type.
dispatch(midi) ==
  IF midi.type = "ControlChange"
  THEN handleControlChange(midi.channel, midi.controller, midi.value)
  ELSE IF midi.type = "SystemReset"
  THEN handleSystemReset
  ELSE Ignore

\* MIDI::loop() without the check of the port.
MIDIloopAnyPort(midi) ==
  IF midi = NoPacket THEN Ignore
  ELSE dispatch(midi)

\* MIDI::loop() with the packet the transport has, if any.
MIDIloop(midi) ==
  IF midi = NoPacket THEN Ignore
  ELSE IF midi.port # 0 THEN Ignore
  ELSE dispatch(midi)

----------------------------------------------------------------------------
(* The sketch *)

Init ==
  /\ config \in StoredConfigs
  /\ _pedal = PedalReset
  /\ _step = 0
  /\ _measureUsec = Zero32
  /\ _eventsUsec = Zero32
  /\ now \in BootTimes
  /\ pc = "setup"
  /\ tx = <<>>
  /\ gate = Gate("none", 0, FALSE, 0, "none")
  /\ fresh = FALSE
  /\ last = Step("init", NoPacket, NoDoc, FALSE, FALSE)
  /\ advances = 0
  /\ sendOk = TRUE
  /\ stamp = now

\* setup(): Device.reset()
Setup ==
  /\ pc = "setup"
  /\ reset
  /\ gate' = Gate("setup", 0, FALSE, _step, gate.kind)
  /\ pc' = "midi"
  /\ last' = Step("setup", NoPacket, NoDoc, FALSE, FALSE)
  /\ stamp' = now
  /\ UNCHANGED <<config, now, advances>>

\* MIDI.loop() that keeps receiving while the transport has packets.
ReceiveDrain ==
  /\ pc = "midi"
  /\ \E midi \in Packets \cup {NoPacket} :
       /\ MIDIloop(midi)
       /\ last' = Step("midi", midi, NoDoc, FALSE, FALSE)
       /\ stamp' = IF midi.port = 0 /\ midi.type = "SystemReset"
                   THEN now ELSE stamp
       /\ pc' = IF midi = NoPacket THEN "device" ELSE "midi"
  /\ UNCHANGED <<config, now, advances>>

\* loop(): MIDI.loop()
Receive ==
  /\ pc = "midi"
  /\ \E midi \in Packets \cup {NoPacket} :
       /\ MIDIloop(midi)
       /\ last' = Step("midi", midi, NoDoc, FALSE, FALSE)
       /\ stamp' = IF midi.port = 0 /\ midi.type = "SystemReset"
                   THEN now ELSE stamp
  /\ pc' = "device"
  /\ UNCHANGED <<config, now, advances>>

\* loop(): Device.loop()
Loop ==
  /\ pc = "device"
  /\ handleLoop
  /\ last' = Step("loop", NoPacket, NoDoc, SampleDue, EventsDue)
  /\ stamp' = IF EventsDue /\ tx' # <<>> THEN now ELSE stamp
  /\ pc' = "midi"
  /\ UNCHANGED <<config, now, advances>>

\* Time passes between two handlers.
Advance ==
  /\ pc # "setup"
  /\ advances < MaxAdvance
  /\ \E d \in Deltas : now' = Add32(now, d)
  /\ advances' = advances + 1
  /\ NoSend
  /\ last' = Step("advance", NoPacket, NoDoc, FALSE, FALSE)
  /\ UNCHANGED <<config, _pedal, _step, _measureUsec, _eventsUsec, pc,
                 gate, fresh, stamp>>

Next == Setup \/ Receive \/ Loop \/ Advance

Spec == Init /\ [][Next]_vars

----------------------------------------------------------------------------
(* The configuration surface: documents imported between handlers *)

\* The documents handed to importConfiguration().
ImportDocs ==
  { Doc({MidiObject({v})}, {}) : v \in ChannelValues }
  \cup { Doc({}, {PedalObject({v}, {}, {})}) : v \in ByteValues }
  \cup { Doc({}, {PedalObject({}, {v}, {})}) : v \in ByteValues }
  \cup { Doc({MidiObject({})}, {PedalObject({}, {}, {v})}) :
            v \in ByteValues }
  \cup { Doc({MidiObject({v})}, {PedalObject({w}, {}, {w})}) :
            v \in {0, 256}, w \in {-1, 256} }
  \cup { NoDoc, Doc({MidiObject({})}, {}), Doc({}, {PedalObject({}, {}, {})}) }
  \cup { exportConfiguration(c) : c \in ExportedConfigs }

InitConfig ==
  /\ config = DefaultConfig
  /\ _pedal = PedalReset
  /\ _step = 0
  /\ _measureUsec = Zero32
  /\ _eventsUsec = Zero32
  /\ now = Zero32
  /\ pc = "setup"
  /\ tx = <<>>
  /\ gate = Gate("none", 0, FALSE, 0, "none")
  /\ fresh = FALSE
  /\ last = Step("init", NoPacket, NoDoc, FALSE, FALSE)
  /\ advances = 0
  /\ sendOk = TRUE
  /\ stamp = now

\* The framework hands a received document to importConfiguration().
Import ==
  /\ pc # "setup"
  /\ \E json \in ImportDocs :
       /\ config' = importConfiguration(config, json)
       /\ last' = Step("import", NoPacket, json, FALSE, FALSE)
  /\ NoSend
  /\ UNCHANGED <<_pedal, _step, _measureUsec, _eventsUsec, now, pc, gate,
                 fresh, advances, stamp>>

NextConfig == Setup \/ Receive \/ Loop \/ Import

SpecConfig == InitConfig /\ [][NextConfig]_vars

----------------------------------------------------------------------------
(* The mapper over a wider set of value ranges, at one instant of the clock *)

\* Range bounds the mapper is run with.
RangeValues == {0, 1, 10, 63, 64, 100, 126, 127}

MapperConfigs ==
  { Config(ch, SustainPedal, f, t) :
      ch \in {0, 15}, f \in RangeValues, t \in RangeValues }

InitMapper ==
  /\ config \in MapperConfigs
  /\ _pedal = PedalReset
  /\ _step = 0
  /\ _measureUsec = Zero32
  /\ _eventsUsec = Zero32
  /\ now = U32(Half - 1, Half - 20000)
  /\ pc = "setup"
  /\ tx = <<>>
  /\ gate = Gate("none", 0, FALSE, 0, "none")
  /\ fresh = FALSE
  /\ last = Step("init", NoPacket, NoDoc, FALSE, FALSE)
  /\ advances = 0
  /\ sendOk = TRUE
  /\ stamp = now

NextMapper == Setup \/ Receive \/ Loop

SpecMapper == InitMapper /\ [][NextMapper]_vars

----------------------------------------------------------------------------
(* Properties *)

\* The last step was a handleLoop() whose event-gate check called
\* sendEvents().
TickCalled == last.op = "loop" /\ last.gated

\* The last step dispatched a Control Change with controller AllSoundOff or
\* AllNotesOff to handleControlChange().
ForcedCalled ==
  /\ last.op = "midi"
  /\ last.pkt.port = 0
  /\ last.pkt.type = "ControlChange"
  /\ last.pkt.controller \in {AllSoundOff, AllNotesOff}

\* The last step dispatched a System Reset to handleSystemReset().
SystemResetCalled ==
  /\ last.op = "midi"
  /\ last.pkt.port = 0
  /\ last.pkt.type = "SystemReset"

\* The Control Change sendEvents() builds for a value.
ControlChangeOf(value) ==
  setControlChange(config.channel, config.pedal.controller, value)

\* C1: a call of sendEvents(force) with force false and a mapped value equal
\* to _step sends nothing and leaves _step; every other call sets _step to
\* the mapped value and sends exactly one Control Change (config.channel,
\* config.pedal.controller, value).
C1_EventGate ==
  [][ (TickCalled' \/ ForcedCalled') =>
        LET value == MappedValue(config, _pedal'.fraction)
        IN  IF TickCalled' /\ _step = value
            THEN tx' = <<>> /\ _step' = _step
            ELSE tx' = <<ControlChangeOf(value)>> /\ _step' = value ]_vars

\* C1 witness: a non-forced call was suppressed with a value other than the
\* initial 0.
C1_Witness == TickCalled /\ tx = <<>> /\ gate.same /\ _step # 0

\* C2: every Control Change with controller AllSoundOff or AllNotesOff that
\* is dispatched to handleControlChange(), on any channel, sends exactly one
\* Control Change carrying the current mapped value, also when that value
\* equals _step.
C2_ForcedResend ==
  [][ ForcedCalled' =>
        tx' = <<ControlChangeOf(MappedValue(config, _pedal.fraction))>> ]_vars

\* C2 witness: a forced resend on another channel than the configured one
\* sent a value that _step already had.
C2_Witness ==
  /\ ForcedCalled
  /\ last.pkt.channel # config.channel
  /\ gate.same
  /\ Len(tx) = 1

\* C3 as claimed: of two consecutive non-forced gate ticks that map to the
\* same value, the first sends and the second does not.
C3_ExactlyOne ==
  [][ ( /\ TickCalled'
        /\ gate.kind = "tick"
        /\ gate.value = MappedValue(config, _pedal'.fraction) )
      => (gate.sent /\ tx' = <<>>) ]_vars

\* C3 amended: of two consecutive non-forced gate ticks (no reset and no
\* forced resend between them) that map to the same value, the second
\* sends nothing.
C3_SecondSuppressed ==
  [][ ( /\ TickCalled'
        /\ gate.kind = "tick"
        /\ gate.value = MappedValue(config, _pedal'.fraction) )
      => (tx' = <<>> /\ _step' = _step) ]_vars

\* C3 witness: the second of two consecutive ticks was suppressed with a
\* value other than 0.
C3_Witness ==
  /\ TickCalled
  /\ gate.after = "tick"
  /\ gate.value # 0
  /\ tx = <<>>

\* C4 as claimed: after a System Reset _step is 0 and the first gate tick
\* that follows sends the current mapped value.
C4_FirstTickSends ==
  [][ /\ SystemResetCalled' => _step' = 0
      /\ (TickCalled' /\ gate.kind = "SystemReset") =>
           tx' = <<ControlChangeOf(MappedValue(config, _pedal'.fraction))>>
    ]_vars

\* C4 amended: after a System Reset _step is 0, and the first gate tick that
\* follows it with no forced resend in between sends the current mapped
\* value exactly when that value is not 0; a mapped value of 0 is
\* suppressed.
C4_FirstTickSendsNonZero ==
  [][ /\ SystemResetCalled' => _step' = 0
      /\ (TickCalled' /\ gate.kind = "SystemReset") =>
           LET value == MappedValue(config, _pedal'.fraction)
           IN  IF value = 0
               THEN tx' = <<>>
               ELSE tx' = <<ControlChangeOf(value)>>
    ]_vars

\* C4 witness: the first gate tick after a System Reset sent a value.
C4_Witness ==
  /\ TickCalled
  /\ gate.after = "SystemReset"
  /\ tx = <<ControlChangeOf(_step)>>
  /\ _step # 0

\* C5: the reset of setup() and the reset of a System Reset message leave
\* the smoother reset, _step = 0, _measureUsec = 0 and _eventsUsec = the
\* current time, and do not change the configuration.
C5_FullReset ==
  [][ (last'.op = "setup" \/ SystemResetCalled') =>
        /\ _pedal' = PedalReset
        /\ _step' = 0
        /\ _measureUsec' = Zero32
        /\ _eventsUsec' = now'
        /\ config' = config ]_vars

\* C5 witness: a System Reset arrived after a value other than 0 had been
\* emitted and after the smoother had measured, at a clock other than 0.
C5_Witness ==
  /\ SystemResetCalled
  /\ gate.kind = "SystemReset"
  /\ ~gate.same
  /\ now # Zero32

\* C6 as claimed: the first handleLoop() after a reset takes a sample and
\* feeds it to the smoother, whatever the clock shows.
C6_NextTickSamples ==
  [][ (last'.op = "loop" /\ fresh) => _pedal'.measured ]_vars

\* C7: config.channel is in 0..15 and config.pedal.controller, from and to
\* are in 0..127 in every state reached from the default configuration by
\* imports, resets and ticks.
C7_ConfigInRange == ValidConfig(config)

\* C7 witness: a document carrying 200 for "from" was imported.
C7_Witness ==
  /\ last.op = "import"
  /\ Member(last.doc.pedal, "from") = {200}
  /\ config.pedal.from = 127

\* The nearest value to v in lo..hi.
Clamp(v, lo, hi) == IF v < lo THEN lo ELSE IF v > hi THEN hi ELSE v

\* C8 as claimed: for every integer of a present member the import stores
\* the nearest valid bound, clamp(v, 1, 16) - 1 for the channel and
\* clamp(v, 0, 127) for controller, from and to.
C8_NearestBound ==
  last.op = "import" =>
    LET json == last.doc
    IN  /\ Present(json.midi, "channel") =>
             config.channel = Clamp(ValueOf(json.midi, "channel"), 1, 16) - 1
        /\ Present(json.pedal, "controller") =>
             config.pedal.controller =
               Clamp(ValueOf(json.pedal, "controller"), 0, 127)
        /\ Present(json.pedal, "from") =>
             config.pedal.from = Clamp(ValueOf(json.pedal, "from"), 0, 127)
        /\ Present(json.pedal, "to") =>
             config.pedal.to = Clamp(ValueOf(json.pedal, "to"), 0, 127)

\* C9: an import keeps the stored value of every field whose member, or
\* whose parent object, is absent or null, and changes neither _step, the
\* two timestamps nor the smoother.
C9_ImportFrame ==
  [][ last'.op = "import" =>
        LET json == last'.doc
        IN  /\ ~Present(json.midi, "channel") =>
                 config'.channel = config.channel
            /\ ~Present(json.pedal, "controller") =>
                 config'.pedal.controller = config.pedal.controller
            /\ ~Present(json.pedal, "from") =>
                 config'.pedal.from = config.pedal.from
            /\ ~Present(json.pedal, "to") =>
                 config'.pedal.to = config.pedal.to
            /\ runtime' = runtime ]_vars

\* C9 witness: a document with only "controller" was imported over a
\* configuration whose other fields differ from the defaults.
C9_Witness ==
  /\ last.op = "import"
  /\ last.doc.midi = {}
  /\ Present(last.doc.pedal, "controller")
  /\ ~Present(last.doc.pedal, "from")
  /\ ~Present(last.doc.pedal, "to")
  /\ config.channel = 15
  /\ config.pedal.from = 127
  /\ config.pedal.to = 64

\* C10: importing the document exported from a valid configuration, over
\* any valid configuration, stores exactly the exported configuration.
C10_RoundTrip ==
  last.op = "import" =>
    \A c \in ExportedConfigs :
      last.doc = exportConfiguration(c) => config = c

\* C10 witness: the export of channel 15 was imported over a different
\* configuration.
C10_Witness ==
  /\ last.op = "import"
  /\ last.doc = exportConfiguration(Config(15, 127, 0, 64))
  /\ config = Config(15, 127, 0, 64)

\* C11: for from < to the mapped value is non-decreasing in the fraction,
\* for from > to it is non-increasing, over all fractions 0/MapperDen ..
\* MapperDen/MapperDen.
C11_Monotone ==
  \A a \in 0..MapperDen : \A b \in a..MapperDen :
    /\ config.pedal.from < config.pedal.to =>
         Mapped(config, a, MapperDen) <= Mapped(config, b, MapperDen)
    /\ config.pedal.from > config.pedal.to =>
         Mapped(config, a, MapperDen) >= Mapped(config, b, MapperDen)

\* C11 witness: with an inverted range the pedal fully pressed was sent as
\* the lower bound, below the value of the released pedal.
C11_Witness ==
  /\ ForcedCalled
  /\ config.pedal.from > config.pedal.to
  /\ _pedal.fraction = FracDen
  /\ tx = <<ControlChangeOf(config.pedal.to)>>

\* C12: a failed send is not retried: _step is set to the value of the
\* packet whether or not the transport took it, and every packet handed to
\* the transport comes from a forced resend or from a gate tick whose
\* mapped value differs from _step.
C12_NoRetry ==
  [][ /\ (tx' # <<>> /\ ~sendOk') => _step' = tx'[1].value
      /\ tx' # <<>> =>
           \/ ForcedCalled'
           \/ TickCalled' /\ tx'[1].value # _step ]_vars

\* C12 witness: the transport refused the packet of a gate tick and _step
\* holds the value of that packet.
C12_Witness ==
  /\ TickCalled
  /\ tx # <<>>
  /\ ~sendOk
  /\ _step = tx[1].value

\* C13: MIDI.loop() and Device.loop() alternate, MIDI.loop() first, and each
\* MIDI.loop() takes at most one packet; the cadence checks of the same
\* iteration see its effect: right after a System Reset the gate is not
\* due, and right after a forced resend a gate tick on the same reading
\* sends nothing.
C13_DispatchFirst ==
  [][ /\ last'.op = "setup" => pc' = "midi"
      /\ last'.op = "midi" => (pc = "midi" /\ pc' = "device")
      /\ last'.op = "loop" => (pc = "device" /\ pc' = "midi")
      /\ last'.op = "advance" => pc' = pc
      /\ (last'.op = "loop" /\ SystemResetCalled) =>
           (~last'.gated /\ tx' = <<>>)
      /\ (last'.op = "loop" /\ ForcedCalled /\ ~last'.sampled) =>
           tx' = <<>> ]_vars

\* C13 witness: a gate tick that followed a forced resend sent nothing.
C13_Witness ==
  /\ TickCalled
  /\ gate.after = "forced"
  /\ gate.same
  /\ tx = <<>>
  /\ pc = "midi"

\* C14: a MIDI.loop() whose packet is neither a System Reset nor a Control
\* Change with controller AllSoundOff or AllNotesOff on port 0 (another
\* message type, another controller, any packet of another port, or no
\* packet) sends nothing and changes neither the configuration nor _step,
\* the timestamps and the smoother.
C14_Ignored ==
  [][ (last'.op = "midi" /\ ~ForcedCalled' /\ ~SystemResetCalled') =>
        /\ tx' = <<>>
        /\ config' = config
        /\ runtime' = runtime ]_vars

\* C14 witness: a System Reset of port 1 was received while a value other
\* than 0 was the last emitted one.
C14_Witness ==
  /\ last.op = "midi"
  /\ last.pkt.port = 1
  /\ last.pkt.type = "SystemReset"
  /\ _step # 0

\* C15 as claimed: a gate tick whose mapped value equals _step leaves the
\* emit timestamp as it was.
C15_NoTimestamp ==
  [][ (TickCalled' /\ MappedValue(config, _pedal'.fraction) = _step) =>
        _eventsUsec' = _eventsUsec ]_vars

\* C15 amended: a gate tick whose mapped value equals _step sends nothing
\* and leaves _step, and leaves the sample timestamp unless the same
\* handleLoop() sampled; the emit timestamp is set to the current time, as
\* on every gate tick.
C15_SuppressedTick ==
  [][ (TickCalled' /\ MappedValue(config, _pedal'.fraction) = _step) =>
        /\ tx' = <<>>
        /\ _step' = _step
        /\ _eventsUsec' = now'
        /\ ~last'.sampled => _measureUsec' = _measureUsec ]_vars

\* C15 witness: a gate tick without a sample was suppressed and the emit
\* timestamp is the current time.
C15_Witness ==
  /\ TickCalled
  /\ ~last.sampled
  /\ gate.same
  /\ tx = <<>>
  /\ _eventsUsec = now
  /\ _measureUsec # now

\* C16: a forced resend sets _step to the emitted value and changes neither
\* the configuration, the sample timestamp, the emit timestamp nor the
\* smoother.
C16_ForcedFrame ==
  [][ ForcedCalled' =>
        /\ _step' = MappedValue(config, _pedal.fraction)
        /\ config' = config
        /\ _pedal' = _pedal
        /\ _measureUsec' = _measureUsec
        /\ _eventsUsec' = _eventsUsec ]_vars

\* C16 witness: a forced resend changed _step while the emit cadence was
\* running.
C16_Witness ==
  /\ ForcedCalled
  /\ ~gate.same
  /\ _eventsUsec # now
  /\ _pedal.measured

\* C17: when a gate tick sends a packet, more than 20 ms (by unsigned 32-bit
\* subtraction) have passed since the last reset and since the last packet
\* sent by a gate tick.
C17_RateLimit ==
  [][ (TickCalled' /\ tx' # <<>>) =>
        Greater32(Sub32(now', stamp), EventsUsec) ]_vars

\* C17 witness: a gate tick sent a packet less than 20 ms after the clock
\* wrapped.
C17_Witness ==
  /\ TickCalled
  /\ tx # <<>>
  /\ now.hi = 0
  /\ now.lo < EventsUsec

\* C18: every packet handed to the transport has channel in 0..15,
\* controller in 0..127, value in 0..127, and its value lies between
\* min(from, to) and max(from, to); so does the mapped value of every
\* fraction k/MapperDen under the configuration in use.
C18_PacketInRange ==
  LET lo == IF config.pedal.from < config.pedal.to
            THEN config.pedal.from ELSE config.pedal.to
      hi == IF config.pedal.from < config.pedal.to
            THEN config.pedal.to ELSE config.pedal.from
  IN  /\ \A i \in 1..Len(tx) :
           /\ tx[i].type = "ControlChange"
           /\ tx[i].channel \in 0..15
           /\ tx[i].controller \in 0..127
           /\ tx[i].value \in 0..127
           /\ tx[i].value \in lo..hi
      /\ \A k \in 0..MapperDen :
           Mapped(config, k, MapperDen) \in lo..hi

\* C18 witness: with an inverted range a gate tick sent a value strictly
\* between the bounds.
C18_Witness ==
  /\ TickCalled
  /\ Len(tx) = 1
  /\ config.pedal.from > config.pedal.to
  /\ tx[1].value > config.pedal.to
  /\ tx[1].value < config.pedal.from

\* C19: _step is the value of the last packet handed to the transport since
\* the last reset, or 0: a step that sends sets _step to the value sent, a
\* reset sets it to 0, and no other step changes it.
C19_StepIsLastSent ==
  [][ /\ tx' # <<>> => _step' = tx'[Len(tx')].value
      /\ (last'.op = "setup" \/ SystemResetCalled') => _step' = 0
      /\ (tx' = <<>> /\ last'.op # "setup" /\ ~SystemResetCalled') =>
           _step' = _step ]_vars

\* C19 witness: a handleLoop() sampled a reading that maps to another value
\* than the last one sent, without a gate tick.
C19_Witness ==
  /\ last.op = "loop"
  /\ last.sampled
  /\ ~last.gated
  /\ _step # 0
  /\ MappedValue(config, _pedal.fraction) # _step

====
